---------------------------- MODULE Spec2Model ----------------------------
(***************************************************************************)
(* Model of the statement extraction pipeline of src/app.py:               *)
(* is_date, clean_amount, process_kotak and process_generic.               *)
(*                                                                         *)
(* A Python string is a sequence of one-character strings, so that the     *)
(* string operations of the source (strip, replace, split, join, the two   *)
(* regular expressions) are computed character by character.  A float      *)
(* amount is an integer number of hundredths: the amount pattern always    *)
(* yields exactly two decimals.                                            *)
(***************************************************************************)
EXTENDS Integers, Sequences, FiniteSets, TLC

(***************************************************************************)
(* Bounds of the model.                                                    *)
(***************************************************************************)
MaxPages == 2
MaxTables == 2
MaxRows == 3
MaxPieces == 4
MaxCells == 4
MaxLinePieces == 5

(***************************************************************************)
(* Python values.                                                          *)
(***************************************************************************)
\* Python's None where a string is expected (a cell, a token).
None == <<"None">>

\* The amount clean_amount returns when it returns (None, None).
NoneAmt == -1

\* bool(val) of a string-or-None value: None and "" are falsy.
Truthy(val) == val # None /\ val # <<>>

Digits == {"0", "1", "2", "3", "4", "5", "6", "7", "8", "9"}

Letters ==
  {"A", "B", "C", "D", "E", "F", "G", "H", "I", "J", "K", "L", "M",
   "N", "O", "P", "Q", "R", "S", "T", "U", "V", "W", "X", "Y", "Z",
   "a", "b", "c", "d", "e", "f", "g", "h", "i", "j", "k", "l", "m",
   "n", "o", "p", "q", "r", "s", "t", "u", "v", "w", "x", "y", "z"}

IsDigit(c) == c \in Digits

IsAlpha(c) == c \in Letters

IsSpace(c) == c = " "

DigitVal(c) ==
  CASE c = "0" -> 0 [] c = "1" -> 1 [] c = "2" -> 2 [] c = "3" -> 3
    [] c = "4" -> 4 [] c = "5" -> 5 [] c = "6" -> 6 [] c = "7" -> 7
    [] c = "8" -> 8 [] c = "9" -> 9

DigitChar(d) ==
  CASE d = 0 -> "0" [] d = 1 -> "1" [] d = 2 -> "2" [] d = 3 -> "3"
    [] d = 4 -> "4" [] d = 5 -> "5" [] d = 6 -> "6" [] d = 7 -> "7"
    [] d = 8 -> "8" [] d = 9 -> "9"

\* s[i:] of a 1-based sequence.
From(s, i) == SubSeq(s, i, Len(s))

\* str.strip()
RECURSIVE LStrip(_)
LStrip(s) ==
  IF s # <<>> /\ IsSpace(s[1]) THEN LStrip(Tail(s)) ELSE s

RECURSIVE RStrip(_)
RStrip(s) ==
  IF s # <<>> /\ IsSpace(s[Len(s)]) THEN RStrip(SubSeq(s, 1, Len(s) - 1)) ELSE s

Strip(s) == RStrip(LStrip(s))

\* s.startswith(sub), s.endswith(sub), sub in s
StartsWith(s, sub) == Len(sub) <= Len(s) /\ SubSeq(s, 1, Len(sub)) = sub

EndsWith(s, sub) ==
  Len(sub) <= Len(s) /\ SubSeq(s, Len(s) - Len(sub) + 1, Len(s)) = sub

Contains(s, sub) == \E i \in 1..(Len(s) + 1) : StartsWith(From(s, i), sub)

\* s.replace(old, ""): the leftmost non-overlapping occurrences are removed.
RECURSIVE Remove(_, _)
Remove(s, old) ==
  IF Len(s) < Len(old) \/ old = <<>> THEN s
  ELSE IF StartsWith(s, old) THEN Remove(From(s, Len(old) + 1), old)
  ELSE <<s[1]>> \o Remove(Tail(s), old)

\* sep.join(parts)
RECURSIVE Join(_, _)
Join(parts, sep) ==
  IF parts = <<>> THEN <<>>
  ELSE IF Len(parts) = 1 THEN parts[1]
  ELSE parts[1] \o sep \o Join(Tail(parts), sep)

\* line.split(): the maximal runs of non-whitespace characters.
RECURSIVE TokenEnd(_, _)
TokenEnd(s, i) ==
  IF i <= Len(s) /\ ~IsSpace(s[i]) THEN TokenEnd(s, i + 1) ELSE i

RECURSIVE Split(_)
Split(s) ==
  LET t == LStrip(s)
      e == TokenEnd(t, 1)
  IN  IF t = <<>> THEN <<>> ELSE <<SubSeq(t, 1, e - 1)>> \o Split(From(t, e))

\* int() of a run of decimal digits ("" counts 0).
RECURSIVE DigitsVal(_)
DigitsVal(s) ==
  IF s = <<>> THEN 0
  ELSE 10 * DigitsVal(SubSeq(s, 1, Len(s) - 1)) + DigitVal(s[Len(s)])

\* float(s) of a string "<digits>.<d><d>", in hundredths.
ToFloat(s) ==
  100 * DigitsVal(SubSeq(s, 1, Len(s) - 3)) + DigitsVal(SubSeq(s, Len(s) - 1, Len(s)))

\* The decimal digits of a natural number.
RECURSIVE NatStr(_)
NatStr(n) ==
  IF n < 10 THEN <<DigitChar(n)>> ELSE NatStr(n \div 10) \o <<DigitChar(n % 10)>>

\* str(amt) of a float with at most two decimals: the shortest repr, which
\* keeps at least one decimal ("5.0", "12.1", "1234.56").
FloatStr(a) ==
  NatStr(a \div 100) \o <<".">> \o
    (IF a % 10 = 0 THEN <<DigitChar((a % 100) \div 10)>>
     ELSE <<DigitChar((a % 100) \div 10), DigitChar(a % 10)>>)

(***************************************************************************)
(* is_date: re.search(r'^\d{2}[/-](?:\d{2}|[A-Za-z]{3})[/-]\d{2,4}', s)    *)
(***************************************************************************)
IsDateSep(c) == c \in {"/", "-"}

is_date(string) ==
  /\ Truthy(string)
  /\ Len(string) >= 8
  /\ IsDigit(string[1]) /\ IsDigit(string[2])
  /\ IsDateSep(string[3])
  /\ \/ /\ IsDigit(string[4]) /\ IsDigit(string[5])
        /\ IsDateSep(string[6])
        /\ IsDigit(string[7]) /\ IsDigit(string[8])
     \/ /\ Len(string) >= 9
        /\ IsAlpha(string[4]) /\ IsAlpha(string[5]) /\ IsAlpha(string[6])
        /\ IsDateSep(string[7])
        /\ IsDigit(string[8]) /\ IsDigit(string[9])

(***************************************************************************)
(* clean_amount                                                            *)
(***************************************************************************)
Comma == <<",">>
RsDot == <<"R", "s", ".">>
Cr == <<"C", "r">>
CR == <<"C", "R">>
Dr == <<"D", "r">>

IsNumCh(c) == IsDigit(c) \/ c = ","

\* The index after the maximal run of [\d,] that starts at i.
RECURSIVE RunEnd(_, _)
RunEnd(s, i) == IF i <= Len(s) /\ IsNumCh(s[i]) THEN RunEnd(s, i + 1) ELSE i

\* re.findall(r"[\d,]+\.\d{2}", s[i:]): the non-overlapping matches, left to
\* right.  [\d,]+ is greedy and "." is not in its class, so a match that
\* starts at i ends right after the maximal run from i.
RECURSIVE FindAllFrom(_, _)
FindAllFrom(s, i) ==
  IF i > Len(s) THEN <<>>
  ELSE LET e == RunEnd(s, i)
       IN  IF /\ e > i
              /\ e + 2 <= Len(s)
              /\ s[e] = "."
              /\ IsDigit(s[e + 1]) /\ IsDigit(s[e + 2])
           THEN <<SubSeq(s, i, e + 2)>> \o FindAllFrom(s, e + 3)
           ELSE FindAllFrom(s, i + 1)

FindAll(s) == FindAllFrom(s, 1)

\* A faulty IsCredit: a debit marker takes precedence over a credit marker.
IsCreditUnlessDebit(val) ==
  (Contains(val, Cr) \/ Contains(val, CR)) /\ ~Contains(val, Dr)

\* Line 20: is_credit
IsCredit(val) == Contains(val, Cr) \/ Contains(val, CR) \/ EndsWith(val, Cr)

\* Line 21: clean_val
CleanVal(val) ==
  Strip(Remove(Remove(Remove(Remove(val, Comma), RsDot), Cr), Dr))

\* Line 25: which of the matches is parsed.
PickNumber(numbers) == numbers[Len(numbers)]

clean_amount(val) ==
  IF ~Truthy(val) THEN [amt |-> NoneAmt, dr_cr |-> "None"]
  ELSE LET v == Strip(val)
           numbers == FindAll(CleanVal(v))
       IN  IF numbers # <<>>
           THEN [amt |-> ToFloat(Remove(PickNumber(numbers), Comma)),
                 dr_cr |-> IF IsCredit(v) THEN "Cr" ELSE "Dr"]
           ELSE [amt |-> NoneAmt, dr_cr |-> "None"]

(***************************************************************************)
(* process_kotak: one row of a table (lines 42-62).                        *)
(*                                                                         *)
(* The outcome of a step is [raised, recs]: raised says that an exception  *)
(* leaves the step, recs are the records it appends to transactions.       *)
(* Python index k is index k + 1 here.                                     *)
(***************************************************************************)
NoRecord == [raised |-> FALSE, recs |-> <<>>]

Raised == [raised |-> TRUE, recs |-> <<>>]

\* A faulty InnerTry: no inner try, the exception leaves the row.
InnerTryMissing(body) == body

\* Lines 46 and 62 (84 and 93): try: <body> except: pass
InnerTry(body) == IF body.raised THEN NoRecord ELSE body

\* Line 42: clean_row = [str(c).strip() if c else "" for c in row]
CleanRow(row) ==
  [k \in 1..Len(row) |-> IF Truthy(row[k]) THEN Strip(row[k]) ELSE <<>>]

\* Line 43: any(clean_row)
AnyCell(clean_row) == \E k \in 1..Len(clean_row) : Truthy(clean_row[k])

\* A faulty DateLed: a date in any cell starts a transaction.
DateLedAnyCell(clean_row) ==
  \E k \in 1..Len(clean_row) : is_date(clean_row[k])

\* Line 45: the row starts a transaction.
DateLed(clean_row) == is_date(clean_row[1])

\* A faulty ScanStop: the scan reaches the date cell (range(len-1, -1, -1)).
ScanStopAtDate == 2 - 1

\* Line 52: the last cell index the scan reaches (Python index 1).
ScanStop == 2

\* A faulty NarrationCells: the empty cells are kept.
NarrationCellsUnfiltered(clean_row, i) == SubSeq(clean_row, 2, i - 1)

\* Line 57: [x for x in clean_row[1:i] if x], i the amount cell.
NarrationCells(clean_row, i) ==
  SelectSeq(SubSeq(clean_row, 2, i - 1), Truthy)

\* Lines 48-58: for i in range(len(clean_row)-1, 0, -1), stopping at the
\* first cell on which clean_amount succeeds.
RECURSIVE ScanAmount(_, _)
ScanAmount(clean_row, i) ==
  IF i < ScanStop THEN [amount |-> 0, txn_type |-> "Dr", narration |-> <<>>]
  ELSE LET r == clean_amount(clean_row[i])
       IN  IF r.amt # NoneAmt
           THEN [amount |-> r.amt, txn_type |-> r.dr_cr,
                 narration |-> Join(NarrationCells(clean_row, i), <<" ">>)]
           ELSE ScanAmount(clean_row, i - 1)

\* A faulty KeepAmount: no zero-amount filter.
KeepAnyAmount(amount) == TRUE

\* Line 60: if amount != 0.0
KeepAmount(amount) == amount # 0

\* Lines 47-61, the body of the inner try.  fault: a statement of the body
\* raises (the environment's choice).
KotakBody(clean_row, fault) ==
  IF fault THEN Raised
  ELSE LET t == ScanAmount(clean_row, Len(clean_row))
       IN  IF KeepAmount(t.amount)
           THEN [raised |-> FALSE,
                 recs |-> <<[Date |-> clean_row[1], Narration |-> t.narration,
                             Amount |-> t.amount, Type |-> t.txn_type]>>]
           ELSE NoRecord

\* Lines 42-62.  clean_row[0] of an empty row would raise IndexError
\* outside the inner try; line 43 skips such a row first.
KotakRow(row, fault) ==
  LET clean_row == CleanRow(row)
  IN  IF ~AnyCell(clean_row) THEN NoRecord
      ELSE IF clean_row = <<>> THEN Raised
      ELSE IF DateLed(clean_row) THEN InnerTry(KotakBody(clean_row, fault))
      ELSE NoRecord

(***************************************************************************)
(* process_generic: one line of a page's text (lines 80-93).               *)
(***************************************************************************)
\* A faulty FirstTry: the second-to-last token is tried first.
FirstTrySecondToLast(parts) ==
  IF Len(parts) > 1 THEN parts[Len(parts) - 1] ELSE parts[Len(parts)]

\* Line 86: the token tried first.
FirstTry(parts) == parts[Len(parts)]

\* Lines 86-88: amt, dr_cr
LineAmount(parts) ==
  LET first == clean_amount(FirstTry(parts))
  IN  IF first.amt = NoneAmt /\ Len(parts) > 1
      THEN clean_amount(parts[Len(parts) - 1])
      ELSE first

\* Line 91: " ".join(parts[1:-1]).replace(str(amt), "")
LineNarration(parts, amt) ==
  Remove(Join(SubSeq(parts, 2, Len(parts) - 1), <<" ">>), FloatStr(amt))

\* Lines 85-92, the body of the inner try.
GenericBody(parts, fault) ==
  IF fault THEN Raised
  ELSE LET r == LineAmount(parts)
       IN  IF r.amt # NoneAmt
           THEN [raised |-> FALSE,
                 recs |-> <<[Date |-> parts[1],
                             Narration |-> LineNarration(parts, r.amt),
                             Amount |-> r.amt, Type |-> r.dr_cr]>>]
           ELSE NoRecord

\* Lines 80-93.
GenericLine(line, fault) ==
  LET parts == Split(line)
  IN  IF parts = <<>> THEN NoRecord
      ELSE IF is_date(parts[1]) THEN InnerTry(GenericBody(parts, fault))
      ELSE NoRecord

(***************************************************************************)
(* Inputs.                                                                 *)
(***************************************************************************)
\* All concatenations of at most n strings of a set.
RECURSIVE Concats(_, _)
Concats(pieces, n) ==
  IF n = 0 THEN {<<>>}
  ELSE LET shorter == Concats(pieces, n - 1)
       IN  shorter \cup {p \o t : p \in pieces, t \in shorter}

\* All sequences of at most n elements of a set.
RECURSIVE SeqsUpTo(_, _)
SeqsUpTo(S, n) ==
  IF n = 0 THEN {<<>>}
  ELSE LET shorter == SeqsUpTo(S, n - 1)
       IN  shorter \cup {<<x>> \o t : x \in S, t \in shorter}

\* What tokens handed to clean_amount are made of.
TokenPieces ==
  {Cr, CR, Dr, RsDot, Comma, <<" ">>, <<"1">>, <<"0">>,
   <<".", "0", "0">>, <<".", "5">>}

Tokens == Concats(TokenPieces, MaxPieces) \cup {None}

\* The cells of a table row, as page.extract_tables gives them.
Cells ==
  {None,
   <<>>,
   <<"1", "5", "/", "0", "3", "/", "2", "4">>,
   <<" ", "0", "1", "-", "J", "a", "n", "-", "2", "4">>,
   <<"1", "5", "/", "0", "3", "/", "2", "4", ".", "5", "0">>,
   <<"U", "P", "I">>,
   <<"1", ",", "2", "3", "4", ".", "5", "6", " ", "D", "r">>,
   <<"5", "0", ".", "0", "0", "C", "r">>,
   <<"0", ".", "0", "0">>}

Rows == SeqsUpTo(Cells, MaxCells)

\* What the lines of a page's text are made of.
LinePieces ==
  {<<" ">>,
   <<"1", "5", "/", "0", "3", "/", "2", "4">>,
   <<"A", "T", "M">>,
   <<"5", ".", "0", "0">>,
   <<"9", ".", "0", "0", "C", "r">>}

Lines == Concats(LinePieces, MaxLinePieces)

\* The rows and lines of the documents of whole runs.
DocRows ==
  {<<<<"U", "P", "I">>, <<"0", ".", "0", "0">>>>,
   <<<<"1", "5", "/", "0", "3", "/", "2", "4">>, <<"U", "P", "I">>, <<>>, <<"1", ",", "2", "3", "4", ".", "5", "6", " ", "D", "r">>>>,
   <<<<" ", "0", "1", "-", "J", "a", "n", "-", "2", "4">>, None, <<"5", "0", ".", "0", "0", "C", "r">>>>}

DocLines ==
  {<<"1", "5", "/", "0", "3", "/", "2", "4", " ", "A", "T", "M", " ", "5", ".", "0", "0">>,
   <<"A", "T", "M", " ", "5", ".", "0", "0">>,
   <<"1", "2", "-", "J", "a", "n", "-", "2", "3", " ", "9", ".", "0", "0", "C", "r", " ", "2", ".", "1", "0">>}

Passwords == {"", "pw", "bad"}

\* A document: the password it is encrypted with ("None": not encrypted),
\* and whether its structure is unreadable.
Documents == [key : {"None", "pw"}, corrupt : BOOLEAN]

(***************************************************************************)
(* State.                                                                  *)
(***************************************************************************)
VARIABLES
  pc,            \* where the run is: "idle", "opening", "iter", "returned"
  profile,       \* "kotak": process_kotak, "generic": process_generic
  pwd,           \* the local pwd; "None" is Python's None
  doc,           \* the document handed to the run
  handle,        \* the pdfplumber document: "closed" or "open"
  pageNo,        \* pages read so far
  tableNo,       \* tables of the current page entered so far
  transactions,  \* the local transactions
  err,           \* the message shown by st.error, or "None"
  result,        \* the rows of the returned DataFrame
  seen,          \* history: the rows or lines read so far, in reading order
  failed,        \* history: what made the run fail, or "none"
  token,         \* the argument of a call of clean_amount
  parsed         \* what the call returned; dr_cr = "unset" before it returns

vars ==
  <<pc, profile, pwd, doc, handle, pageNo, tableNo, transactions, err,
    result, seen, failed, token, parsed>>

runVars ==
  <<pc, profile, pwd, doc, handle, pageNo, tableNo, transactions, err,
    result, seen, failed>>

Unset == [amt |-> NoneAmt, dr_cr |-> "unset"]

(***************************************************************************)
(* Steps of a run of process_kotak or process_generic.                     *)
(***************************************************************************)
\* Lines 34, 72: pwd = password if password else None
Pwd(password) == IF password \in {"None", ""} THEN "None" ELSE password

\* Lines 37, 75: whether pdfplumber.open returns a document.
OpenSucceeds(d, p) == ~d.corrupt /\ (d.key = "None" \/ d.key = p)

\* A faulty WithExit: the document is not closed when the block is left.
WithExitLeaks(h) == h

\* Lines 37, 75: leaving the with block, normally or by an exception.
WithExit(h) == "closed"

\* Lines 64, 95: the message of st.error.
ErrorMessage(prof) ==
  IF prof = "kotak" THEN "Error processing Kotak PDF"
  ELSE "Error processing PDF (Generic)"

\* A faulty ExceptResult: the records gathered so far are returned.
ExceptResultPartial(table) == table

\* Lines 65, 96: return pd.DataFrame()
ExceptResult(table) == <<>>

\* A faulty AppendRecords: a record already in the table is not added again.
AppendRecordsUnique(table, recs) ==
  IF \E k \in 1..Len(table) : <<table[k]>> = recs THEN table ELSE table \o recs

\* Lines 61, 92: transactions.append(...)
AppendRecords(table, recs) == table \o recs

\* Lines 63-65, 94-96: an exception leaves the with block and reaches the
\* handler of the outer try.
Abort(kind) ==
  /\ handle' = WithExit(handle)
  /\ err' = ErrorMessage(profile)
  /\ result' = ExceptResult(transactions)
  /\ failed' = kind
  /\ pc' = "returned"

\* Lines 30-34, 69-72: the caller (lines 121-126) starts a run.
Call ==
  /\ pc = "idle"
  /\ \E prof \in {"kotak", "generic"}, password \in Passwords, d \in Documents :
       /\ profile' = prof
       /\ pwd' = Pwd(password)
       /\ doc' = d
  /\ pc' = "opening"
  /\ UNCHANGED <<handle, pageNo, tableNo, transactions, err, result, seen,
                 failed, token, parsed>>

\* Lines 115-121: the script is run again for the next request; nothing of
\* the last run is kept but what it left open.
Rerun ==
  /\ pc = "returned"
  /\ pc' = "idle"
  /\ profile' = "kotak"
  /\ pwd' = "None"
  /\ doc' = [key |-> "None", corrupt |-> FALSE]
  /\ pageNo' = 0
  /\ tableNo' = 0
  /\ transactions' = <<>>
  /\ err' = "None"
  /\ result' = <<>>
  /\ seen' = <<>>
  /\ failed' = "none"
  /\ UNCHANGED <<handle, token, parsed>>

\* Lines 37, 75: pdfplumber.open returns the document.
OpenOk ==
  /\ pc = "opening"
  /\ OpenSucceeds(doc, pwd)
  /\ handle' = "open"
  /\ pc' = "iter"
  /\ UNCHANGED <<profile, pwd, doc, pageNo, tableNo, transactions, err,
                 result, seen, failed, token, parsed>>

\* Lines 37, 75: pdfplumber.open raises; no document was opened.
OpenFail ==
  /\ pc = "opening"
  /\ ~OpenSucceeds(doc, pwd)
  /\ Abort("open")
  /\ UNCHANGED <<profile, pwd, doc, pageNo, tableNo, transactions, seen,
                 token, parsed>>

\* Lines 38-39, 76-78: the next page is read.  A page of process_generic
\* whose text is None or "" is a page with no line.
ReadPage ==
  /\ pc = "iter"
  /\ pageNo < MaxPages
  /\ pageNo' = pageNo + 1
  /\ tableNo' = 0
  /\ UNCHANGED <<pc, profile, pwd, doc, handle, transactions, err, result,
                 seen, failed, token, parsed>>

\* Lines 38-39, 76-77: reading the next page raises.
PageFail ==
  /\ pc = "iter"
  /\ pageNo < MaxPages
  /\ pageNo' = pageNo + 1
  /\ tableNo' = 0
  /\ Abort("page")
  /\ UNCHANGED <<profile, pwd, doc, transactions, seen, token, parsed>>

\* Line 40: the next table of the page.
NextTable ==
  /\ pc = "iter"
  /\ profile = "kotak"
  /\ pageNo >= 1
  /\ tableNo < MaxTables
  /\ tableNo' = tableNo + 1
  /\ UNCHANGED <<pc, profile, pwd, doc, handle, pageNo, transactions, err,
                 result, seen, failed, token, parsed>>

\* Whether a statement of the inner try may raise: only if it is run.
Faults(entersTry) == IF entersTry THEN BOOLEAN ELSE {FALSE}

\* Lines 43-45: the row reaches the inner try.
KotakEntersTry(row) ==
  LET clean_row == CleanRow(row)
  IN  AnyCell(clean_row) /\ clean_row # <<>> /\ DateLed(clean_row)

\* Lines 81-83: the line reaches the inner try.
GenericEntersTry(line) ==
  LET parts == Split(line)
  IN  parts # <<>> /\ is_date(parts[1])

\* One row or line is processed; an exception that leaves it ends the run.
Item(item, fault, out) ==
  /\ seen' = Append(seen, [item |-> item, fault |-> fault, page |-> pageNo])
  /\ IF out.raised
     THEN /\ Abort("row")
          /\ UNCHANGED transactions
     ELSE /\ transactions' = AppendRecords(transactions, out.recs)
          /\ UNCHANGED <<pc, handle, err, result, failed>>
  /\ UNCHANGED <<profile, pwd, doc, pageNo, tableNo, token, parsed>>

\* Lines 41-62: the next row of the table, out of at most limit rows.
RowStep(pool, limit) ==
  /\ pc = "iter"
  /\ profile = "kotak"
  /\ tableNo >= 1
  /\ Len(seen) < limit
  /\ \E row \in pool :
       \E fault \in Faults(KotakEntersTry(row)) :
         Item(row, fault, KotakRow(row, fault))

\* Lines 79-93: the next line of the page's text.
LineStep(pool, limit) ==
  /\ pc = "iter"
  /\ profile = "generic"
  /\ pageNo >= 1
  /\ Len(seen) < limit
  /\ \E line \in pool :
       \E fault \in Faults(GenericEntersTry(line)) :
         Item(line, fault, GenericLine(line, fault))

ProcessRow == RowStep(DocRows, MaxRows)

ProcessLine == LineStep(DocLines, MaxRows)

\* Lines 67, 98: the pages are exhausted; the with block is left and the
\* table is returned.
Finish ==
  /\ pc = "iter"
  /\ handle' = WithExit(handle)
  /\ result' = transactions
  /\ pc' = "returned"
  /\ UNCHANGED <<profile, pwd, doc, pageNo, tableNo, transactions, err,
                 seen, failed, token, parsed>>

Init ==
  /\ pc = "idle"
  /\ profile = "kotak"
  /\ pwd = "None"
  /\ doc = [key |-> "None", corrupt |-> FALSE]
  /\ handle = "closed"
  /\ pageNo = 0
  /\ tableNo = 0
  /\ transactions = <<>>
  /\ err = "None"
  /\ result = <<>>
  /\ seen = <<>>
  /\ failed = "none"
  /\ token = None
  /\ parsed = Unset

Next ==
  \/ Call
  \/ Rerun
  \/ OpenOk
  \/ OpenFail
  \/ ReadPage
  \/ PageFail
  \/ NextTable
  \/ ProcessRow
  \/ ProcessLine
  \/ Finish

\* Whole runs, one after another.
Spec == Init /\ [][Next]_vars

(***************************************************************************)
(* One row or one line, drawn from all the rows and lines of the bounds,   *)
(* in a run that has reached it.                                           *)
(***************************************************************************)
InitRow ==
  /\ pc = "iter"
  /\ profile \in {"kotak", "generic"}
  /\ pwd = "None"
  /\ doc = [key |-> "None", corrupt |-> FALSE]
  /\ handle = "open"
  /\ pageNo = 1
  /\ tableNo = IF profile = "kotak" THEN 1 ELSE 0
  /\ transactions = <<>>
  /\ err = "None"
  /\ result = <<>>
  /\ seen = <<>>
  /\ failed = "none"
  /\ token = None
  /\ parsed = Unset

ExtractRow == RowStep(Rows, 1)

ExtractLine == LineStep(Lines, 1)

NextRow ==
  \/ ExtractRow
  \/ ExtractLine

SpecRow == InitRow /\ [][NextRow]_vars

(***************************************************************************)
(* One call of clean_amount.                                               *)
(***************************************************************************)
InitAmount ==
  /\ pc = "idle"
  /\ profile = "kotak"
  /\ pwd = "None"
  /\ doc = [key |-> "None", corrupt |-> FALSE]
  /\ handle = "closed"
  /\ pageNo = 0
  /\ tableNo = 0
  /\ transactions = <<>>
  /\ err = "None"
  /\ result = <<>>
  /\ seen = <<>>
  /\ failed = "none"
  /\ token \in Tokens
  /\ parsed = Unset

CleanAmountCall ==
  /\ parsed = Unset
  /\ parsed' = clean_amount(token)
  /\ UNCHANGED <<token, runVars>>

NextAmount == CleanAmountCall

SpecAmount == InitAmount /\ [][NextAmount]_vars

(***************************************************************************)
(* Properties.                                                             *)
(***************************************************************************)
\* KotakRow and GenericLine, tabulated over the rows and lines of the
\* documents.
KotakRecords ==
  [row \in DocRows |-> [fault \in BOOLEAN |-> KotakRow(row, fault).recs]]

GenericRecords ==
  [line \in DocLines |-> [fault \in BOOLEAN |-> GenericLine(line, fault).recs]]

\* The records a row or line of the history yields, by the run's profile.
RecordsOf(item, fault) ==
  IF profile = "kotak" THEN KotakRecords[item][fault]
  ELSE GenericRecords[item][fault]

\* The concatenation of the records of a history, in its order.
RECURSIVE Flat(_)
Flat(h) ==
  IF h = <<>> THEN <<>>
  ELSE Flat(SubSeq(h, 1, Len(h) - 1)) \o RecordsOf(h[Len(h)].item, h[Len(h)].fault)

\* The same for a document whose rows and lines raise nothing.
RECURSIVE FlatSound(_)
FlatSound(h) ==
  IF h = <<>> THEN <<>>
  ELSE FlatSound(SubSeq(h, 1, Len(h) - 1)) \o RecordsOf(h[Len(h)].item, FALSE)

NotFaulted(e) == ~e.fault

\* C1: when opening the document or reading a page fails, at whatever page,
\* the run returns an empty table and an error message is shown, whatever
\* was gathered before: the result is never a part of the table.
C1_FailureReturnsEmptyTable ==
  (pc = "returned" /\ failed # "none") => (result = <<>> /\ err # "None")

\* C1 witness: a page fails after records were gathered from earlier pages.
C1_Witness ==
  /\ pc = "returned"
  /\ failed = "page"
  /\ pageNo >= 2
  /\ transactions # <<>>
  /\ result = <<>>

\* C2: for a document that opens and is read to its end, the returned table
\* is the concatenation of the records of its rows or lines in reading
\* order (page by page), equal records included.
C2_ConcatenationInReadingOrder ==
  (pc = "returned" /\ failed = "none") =>
    /\ result = Flat(seen)
    /\ \A i, j \in 1..Len(seen) : i < j => seen[i].page <= seen[j].page

\* C2 witness: three records, the first and third equal and from different
\* pages, the second different.
C2_Witness ==
  /\ pc = "returned"
  /\ failed = "none"
  /\ Len(seen) = 3
  /\ Len(result) = 3
  /\ result[1] = result[3]
  /\ result[1] # result[2]
  /\ seen[1].page < seen[3].page

\* C3: a failure inside one row or line omits that row or line only: the
\* records gathered are those of the same document without the failing rows
\* or lines, the run is not aborted by it and no error message is shown.
C3_RowFailureIsLocal ==
  /\ transactions = FlatSound(SelectSeq(seen, NotFaulted))
  /\ failed \notin {"open", "page"} => (failed = "none" /\ err = "None")
  /\ (pc = "returned" /\ failed = "none") => result = transactions

\* C3 witness: a row that fails between two rows that yield a record.
C3_Witness ==
  /\ pc = "returned"
  /\ failed = "none"
  /\ err = "None"
  /\ Len(seen) = 3
  /\ ~seen[1].fault /\ seen[2].fault /\ ~seen[3].fault
  /\ RecordsOf(seen[2].item, FALSE) # <<>>
  /\ Len(result) = 2

\* The first cell of a row after line 42, or the first token of a line;
\* "" when there is none.
FirstField(item) ==
  IF profile = "kotak"
  THEN IF item = <<>> THEN <<>> ELSE CleanRow(item)[1]
  ELSE IF Split(item) = <<>> THEN <<>> ELSE Split(item)[1]

\* C4: a row whose first cell, or a line whose first token, is not a date
\* yields no record; the Date of every record is that first cell or token
\* and is a date.
C4_OnlyDateLedRowsEmit ==
  seen # <<>> =>
    /\ ~is_date(FirstField(seen[1].item)) => transactions = <<>>
    /\ \A r \in 1..Len(transactions) :
         /\ transactions[r].Date = FirstField(seen[1].item)
         /\ is_date(transactions[r].Date)

\* C4 witness: a table row with a date in its first cell yields a record,
\* and another cell of the row is a date as well.
C4_Witness ==
  /\ seen # <<>>
  /\ profile = "kotak"
  /\ transactions # <<>>
  /\ \E k \in 2..Len(seen[1].item) :
       /\ Truthy(seen[1].item[k])
       /\ is_date(Strip(seen[1].item[k]))
       /\ Strip(seen[1].item[k]) # transactions[1].Date

\* The cells of a cleaned row, from Python index 1 on, on which clean_amount
\* succeeds.
AmountCells(clean_row) ==
  {i \in 2..Len(clean_row) : clean_amount(clean_row[i]).amt # NoneAmt}

Highest(S) == CHOOSE i \in S : \A j \in S : j <= i

\* C5: a date-led table row yields no record when no cell from index 1 on
\* parses as an amount, or when the amount found is 0.00; no record of the
\* table strategy has a zero Amount.
C5_NoZeroAmountRecord ==
  (seen # <<>> /\ profile = "kotak" /\ transactions # <<>>) =>
    LET clean_row == CleanRow(seen[1].item)
        cells == AmountCells(clean_row)
    IN  /\ cells # {}
        /\ clean_amount(clean_row[Highest(cells)]).amt # 0
        /\ \A r \in 1..Len(transactions) : transactions[r].Amount # 0

\* C5 witness: a date-led row whose last cell is 0.00 and which has a
\* non-zero amount cell before it yields nothing.
C5_Witness ==
  /\ seen # <<>>
  /\ profile = "kotak"
  /\ ~seen[1].fault
  /\ LET clean_row == CleanRow(seen[1].item)
         cells == AmountCells(clean_row)
     IN  /\ clean_row # <<>>
         /\ is_date(clean_row[1])
         /\ Cardinality(cells) >= 2
         /\ clean_amount(clean_row[Highest(cells)]).amt = 0
         /\ \E i \in cells : clean_amount(clean_row[i]).amt # 0
  /\ transactions = <<>>

\* C6: the Amount and Type of the record of a date-led table row are those
\* clean_amount returns for the highest cell, from index 1 on, on which it
\* succeeds; the cell at index 0 is never an amount cell.
C6_AmountFromHighestCell ==
  (seen # <<>> /\ profile = "kotak") =>
    /\ transactions # <<>> =>
         LET clean_row == CleanRow(seen[1].item)
             cells == AmountCells(clean_row)
             found == IF cells = {} THEN clean_amount(None)
                      ELSE clean_amount(clean_row[Highest(cells)])
         IN  /\ found.amt # NoneAmt
             /\ transactions[1].Amount = found.amt
             /\ transactions[1].Type = found.dr_cr
    /\ (is_date(FirstField(seen[1].item)) /\ ~seen[1].fault) =>
         LET clean_row == CleanRow(seen[1].item)
             cells == AmountCells(clean_row)
         IN  Len(transactions) =
               IF cells # {} /\ clean_amount(clean_row[Highest(cells)]).amt # 0
               THEN 1 ELSE 0

\* C6 witness: the date cell holds a decimal amount, two later cells hold
\* different amounts, and the record has the amount of the later of them.
C6_Witness ==
  /\ seen # <<>>
  /\ profile = "kotak"
  /\ transactions # <<>>
  /\ LET clean_row == CleanRow(seen[1].item)
         cells == AmountCells(clean_row)
     IN  /\ clean_amount(clean_row[1]).amt # NoneAmt
         /\ \E i \in cells :
              /\ i < Highest(cells)
              /\ clean_amount(clean_row[i]) # clean_amount(clean_row[Highest(cells)])
         /\ transactions[1].Amount # clean_amount(clean_row[1]).amt

\* The total length of the cells of a set of indices.
RECURSIVE SumLen(_, _)
SumLen(clean_row, S) ==
  IF S = {} THEN 0
  ELSE LET j == CHOOSE x \in S : TRUE
       IN  Len(clean_row[j]) + SumLen(clean_row, S \ {j})

\* C7 as stated: the Narration is the single-space join of the cells at
\* the Python indices j with 1 < j < i, i the amount cell.
C7_NarrationStrictlyAfterIndexOne ==
  (seen # <<>> /\ profile = "kotak" /\ transactions # <<>>) =>
    LET clean_row == CleanRow(seen[1].item)
    IN  transactions[1].Narration =
          Join(SubSeq(clean_row, 3, Highest(AmountCells(clean_row)) - 1), <<" ">>)

\* C7 amended: the Narration is the single-space join of the non-empty
\* cells at the Python indices j with 1 <= j < i, i the amount cell.
C7_NarrationFromIndexOne ==
  (seen # <<>> /\ profile = "kotak" /\ transactions # <<>>) =>
    LET clean_row == CleanRow(seen[1].item)
        i == Highest(AmountCells(clean_row))
        kept == {j \in 2..(i - 1) : clean_row[j] # <<>>}
    IN  /\ transactions[1].Narration =
             Join(SelectSeq(SubSeq(clean_row, 2, i - 1), Truthy), <<" ">>)
        /\ kept = {} => transactions[1].Narration = <<>>
        /\ \A j \in kept : Contains(transactions[1].Narration, clean_row[j])
        /\ Len(transactions[1].Narration) =
             IF kept = {} THEN 0
             ELSE Cardinality(kept) - 1 + SumLen(clean_row, kept)

\* C7 witness: the cell at index 1 is not empty and an empty cell lies
\* between it and the amount cell.
C7_Witness ==
  /\ seen # <<>>
  /\ profile = "kotak"
  /\ transactions # <<>>
  /\ LET clean_row == CleanRow(seen[1].item)
         i == Highest(AmountCells(clean_row))
     IN  /\ i >= 4
         /\ clean_row[2] # <<>>
         /\ \E j \in 3..(i - 1) : clean_row[j] = <<>>
         /\ transactions[1].Narration # <<>>

\* C8: for a date-led line the Amount and Type are those of the last token
\* whenever clean_amount succeeds on it; the second-to-last token is used
\* only when the last fails and the line has more than one token; if
\* neither yields an amount the line yields no record.
C8_LastTokenFirst ==
  (seen # <<>> /\ profile = "generic" /\ ~seen[1].fault
     /\ is_date(FirstField(seen[1].item))) =>
    LET parts == Split(seen[1].item)
        n == Len(parts)
        last == clean_amount(parts[n])
    IN  IF last.amt # NoneAmt
        THEN /\ Len(transactions) = 1
             /\ transactions[1].Amount = last.amt
             /\ transactions[1].Type = last.dr_cr
        ELSE IF n > 1 /\ clean_amount(parts[n - 1]).amt # NoneAmt
        THEN /\ Len(transactions) = 1
             /\ transactions[1].Amount = clean_amount(parts[n - 1]).amt
             /\ transactions[1].Type = clean_amount(parts[n - 1]).dr_cr
        ELSE transactions = <<>>

\* C8 witness: the last two tokens both parse, with different results, and
\* the record has the last token's.
C8_Witness ==
  /\ seen # <<>>
  /\ profile = "generic"
  /\ transactions # <<>>
  /\ LET parts == Split(seen[1].item)
         n == Len(parts)
     IN  /\ n >= 3
         /\ clean_amount(parts[n]).amt # NoneAmt
         /\ clean_amount(parts[n - 1]).amt # NoneAmt
         /\ clean_amount(parts[n - 1]).amt # clean_amount(parts[n]).amt
         /\ clean_amount(parts[n - 1]).dr_cr # clean_amount(parts[n]).dr_cr
         /\ transactions[1].Amount = clean_amount(parts[n]).amt

\* C9: when clean_amount returns an amount, the direction is Credit exactly
\* when the token contains "Cr" or "CR", and Debit otherwise, also when the
\* token contains "Dr" as well; the amount and the direction are both
\* returned or both None.
C9_CreditIffMarker ==
  parsed # Unset =>
    /\ (parsed.amt = NoneAmt) <=> (parsed.dr_cr = "None")
    /\ parsed.amt # NoneAmt =>
         /\ parsed.amt >= 0
         /\ parsed.dr_cr \in {"Cr", "Dr"}
         /\ (parsed.dr_cr = "Cr") <=> (Contains(token, Cr) \/ Contains(token, CR))

\* C9 witness: a token with an amount that holds "Dr" before "Cr".
C9_Witness ==
  /\ parsed # Unset
  /\ parsed.amt # NoneAmt
  /\ parsed.dr_cr = "Cr"
  /\ \E i \in 1..Len(token) :
       /\ StartsWith(From(token, i), Dr)
       /\ Contains(From(token, i + 2), Cr)

\* C10: the document is open only while its pages are read: it is closed
\* when the run returns, however it returns, and between runs.
C10_HandleClosedOnReturn ==
  /\ pc # "iter" => handle = "closed"
  /\ pc = "iter" => handle = "open"

\* C10 witness: a run that opened the document and failed on a page has
\* returned.
C10_Witness ==
  /\ pc = "returned"
  /\ failed = "page"
  /\ seen # <<>>
  /\ handle = "closed"

=============================================================================
